---- MODULE Spec2Model ----
(***************************************************************************)
(* A model of package qparams (src/qparams.go): Parse decodes the query    *)
(* parameters of a request into the fields of a destination struct.        *)
(*                                                                         *)
(* Go strings are modelled as sequences of one-character strings, so that  *)
(* splitting, trimming, lower-casing and joining are computed character by *)
(* character as the strings package computes them.                         *)
(***************************************************************************)
EXTENDS Integers, Sequences, FiniteSets, TLC

(***************************************************************************)
(* Package strings (the functions qparams.go calls).                       *)
(***************************************************************************)
UpperChars == <<"A","B","C","D","E","F","G","H","I","J","K","L","M",
                "N","O","P","Q","R","S","T","U","V","W","X","Y","Z">>

LowerChars == <<"a","b","c","d","e","f","g","h","i","j","k","l","m",
                "n","o","p","q","r","s","t","u","v","w","x","y","z">>

ToLowerCh(c) ==
    IF \E k \in 1..Len(UpperChars) : UpperChars[k] = c
    THEN LowerChars[CHOOSE k \in 1..Len(UpperChars) : UpperChars[k] = c]
    ELSE c

ToUpperCh(c) ==
    IF \E k \in 1..Len(LowerChars) : LowerChars[k] = c
    THEN UpperChars[CHOOSE k \in 1..Len(LowerChars) : LowerChars[k] = c]
    ELSE c

\* strings.ToLower
ToLower(s) == [k \in 1..Len(s) |-> ToLowerCh(s[k])]

\* strings.ToUpper
ToUpper(s) == [k \in 1..Len(s) |-> ToUpperCh(s[k])]

\* s[k:] starts with sub (k is 1-based)
HasPrefixAt(s, sub, k) ==
    /\ k + Len(sub) - 1 <= Len(s)
    /\ SubSeq(s, k, k + Len(sub) - 1) = sub

\* strings.Index, 1-based; 0 when sub does not occur in s
Index(s, sub) ==
    IF \E k \in 1..(Len(s) + 1) : HasPrefixAt(s, sub, k)
    THEN CHOOSE k \in 1..(Len(s) + 1) :
            /\ HasPrefixAt(s, sub, k)
            /\ \A j \in 1..(k - 1) : ~HasPrefixAt(s, sub, j)
    ELSE 0

\* strings.Contains
Contains(s, sub) == Index(s, sub) # 0

\* strings.Split: all the pieces between occurrences of sep, empty ones kept;
\* an empty sep explodes s into its characters.
RECURSIVE Split(_, _)
Split(s, sep) ==
    IF sep = <<>> THEN [k \in 1..Len(s) |-> <<s[k]>>]
    ELSE LET k == Index(s, sep) IN
         IF k = 0 THEN <<s>>
         ELSE <<SubSeq(s, 1, k - 1)>> \o Split(SubSeq(s, k + Len(sep), Len(s)), sep)

\* strings.Join
RECURSIVE Join(_, _)
Join(a, sep) ==
    IF Len(a) = 0 THEN <<>>
    ELSE IF Len(a) = 1 THEN a[1]
    ELSE a[1] \o sep \o Join(Tail(a), sep)

\* the characters of a cutset string
CharsOf(s) == {s[k] : k \in 1..Len(s)}

RECURSIVE TrimLeft(_, _)
TrimLeft(s, cutset) ==
    IF Len(s) > 0 /\ s[1] \in CharsOf(cutset) THEN TrimLeft(Tail(s), cutset) ELSE s

RECURSIVE TrimRight(_, _)
TrimRight(s, cutset) ==
    IF Len(s) > 0 /\ s[Len(s)] \in CharsOf(cutset)
    THEN TrimRight(SubSeq(s, 1, Len(s) - 1), cutset)
    ELSE s

\* strings.Trim: every leading and trailing character that is in cutset goes
Trim(s, cutset) == TrimRight(TrimLeft(s, cutset), cutset)

\* strings.TrimSpace, for the characters the model uses
TrimSpace(s) == Trim(s, <<" ">>)

(***************************************************************************)
(* Package strconv.                                                        *)
(***************************************************************************)
Digits == <<"0","1","2","3","4","5","6","7","8","9">>

IsDigit(c) == \E k \in 1..10 : Digits[k] = c

DigitVal(c) == (CHOOSE k \in 1..10 : Digits[k] = c) - 1

AllDigits(s) == Len(s) > 0 /\ \A k \in 1..Len(s) : IsDigit(s[k])

RECURSIVE DecVal(_)
DecVal(s) ==
    IF Len(s) = 0 THEN 0
    ELSE 10 * DecVal(SubSeq(s, 1, Len(s) - 1)) + DigitVal(s[Len(s)])

HasSign(s) == Len(s) > 0 /\ s[1] \in {"+", "-"}

Unsigned(s) == IF HasSign(s) THEN Tail(s) ELSE s

Sign(s) == IF Len(s) > 0 /\ s[1] = "-" THEN -1 ELSE 1

\* strconv.Atoi / strconv.ParseInt(s, 10, 0): an optional sign and one or more
\* decimal digits. (Range errors need more digits than the model's inputs have.)
AtoiOk(s) == AllDigits(Unsigned(s))

Atoi(s) == Sign(s) * DecVal(Unsigned(s))

\* strconv.ParseFloat on decimal notation without exponent: an optional sign,
\* digits with at most one point, at least one digit.
FloatOk(s) ==
    LET u == Unsigned(s)
        parts == Split(u, <<".">>)
    IN  /\ Len(parts) \in {1, 2}
        /\ \A k \in 1..Len(parts) : \A j \in 1..Len(parts[k]) : IsDigit(parts[k][j])
        /\ \E k \in 1..Len(parts) : Len(parts[k]) > 0

RECURSIVE Normalize(_)
Normalize(f) ==
    IF f[2] > 0 /\ f[1] % 10 = 0 THEN Normalize(<<f[1] \div 10, f[2] - 1>>) ELSE f

\* the parsed number as <<m, e>>, standing for m / 10^e, in lowest form
ParseFloat(s) ==
    LET u == Unsigned(s)
        parts == Split(u, <<".">>)
        frac == IF Len(parts) = 2 THEN parts[2] ELSE <<>>
    IN  Normalize(<<Sign(s) * DecVal(parts[1] \o frac), Len(frac)>>)

(***************************************************************************)
(* Values.  A struct field is described as reflect sees it:                *)
(*   Name  the Go identifier,                                              *)
(*   Kind  its reflect.Kind ("String", "Int", "Int32", "Int64", "Float32", *)
(*         "Float64", "Slice", "Map", or "Bool" for a kind Parse ignores), *)
(*   Key, Elem  the key and element type names of a container,             *)
(*   Tag   the text of its qparams struct tag.                             *)
(* A field's value is a record with one component per kind; nil tells an   *)
(* unset slice or map from an empty one, as reflect.DeepEqual does.        *)
(***************************************************************************)
Str0 == <<>>

NoVal == [nil |-> FALSE, str |-> Str0, num |-> 0, flt |-> <<0, 0>>,
          list |-> <<>>, map |-> {}]

IsContainer(f) == f.Kind \in {"Slice", "Map"}

\* the zero value of a field's type
ZeroValue(f) == [NoVal EXCEPT !.nil = IsContainer(f)]

\* a map[string]string with the entry k -> v set (a later entry overwrites)
MapSet(m, k, v) == {p \in m : p[1] # k} \cup {<<k, v>>}

MapKeys(m) == {p[1] : p \in m}

(***************************************************************************)
(* net/url: Values and the query of a request.  A request's raw query is a *)
(* sequence of <<name, value>> pairs in the order they are written.        *)
(***************************************************************************)
RECURSIVE ValuesOf(_, _)
ValuesOf(u, k) ==
    IF Len(u) = 0 THEN <<>>
    ELSE (IF u[1][1] = k THEN <<u[1][2]>> ELSE <<>>) \o ValuesOf(Tail(u), k)

\* r.URL.Query(): each name, as spelled, to its values in order
Query(u) == [k \in {u[j][1] : j \in 1..Len(u)} |-> ValuesOf(u, k)]

\* url.Values.Get: the first value under exactly this key, or ""
Get(qv, key) ==
    IF key \in DOMAIN qv /\ Len(qv[key]) > 0 THEN qv[key][1] ELSE Str0

\* queryValues[key] = vals
SetKey(qv, key, vals) ==
    [k \in (DOMAIN qv) \cup {key} |-> IF k = key THEN vals ELSE qv[k]]

(***************************************************************************)
(* qparams.go, the option resolver.                                        *)
(***************************************************************************)
\* var separator = ","  and  var mapOpsTagSeparator = ","
separator == <<",">>

mapOpsTagSeparator == <<",">>

\* the first option of tags whose text splits on ":" into exactly <<tag, value>>
RECURSIVE firstTag(_, _)
firstTag(tag, tagSlice) ==
    IF Len(tagSlice) = 0 THEN Str0
    ELSE LET subSlice == Split(tagSlice[1], <<":">>) IN
         IF Len(subSlice) = 2 /\ subSlice[1] = tag THEN subSlice[2]
         ELSE firstTag(tag, Tail(tagSlice))

getTag(tag, sField) ==
    IF sField.Tag = Str0 THEN Str0
    ELSE firstTag(tag, Split(sField.Tag, <<" ">>))

getSeparator(sField) ==
    LET s == getTag(<<"s","e","p">>, sField) IN
    IF s # Str0 THEN s ELSE separator

\* a slip a maintainer could make: the vocabulary split on the field's own
\* separator instead of mapOpsTagSeparator
getOperatorsFieldSep(sField) ==
    LET ops == getTag(<<"o","p","s">>, sField) IN
    IF ops # Str0 THEN Split(ops, getSeparator(sField)) ELSE <<>>

getOperators(sField) ==
    LET ops == getTag(<<"o","p","s">>, sField) IN
    IF ops # Str0 THEN Split(ops, mapOpsTagSeparator) ELSE <<>>

(***************************************************************************)
(* The filter tokenizer, walk.  qparams.go calls it (line 289) and its     *)
(* body is not among the repository's files; it is modelled from section   *)
(* 4.2 of the specification.                                               *)
(***************************************************************************)
\* the index of the first operator of the vocabulary that occurs in seg; 0 if none
RECURSIVE firstOperator(_, _, _)
firstOperator(seg, operators, k) ==
    IF k > Len(operators) THEN 0
    ELSE IF Contains(seg, operators[k]) THEN k
    ELSE firstOperator(seg, operators, k + 1)

RECURSIVE walkSegments(_, _, _)
walkSegments(segs, operators, m) ==
    IF Len(segs) = 0 THEN m
    ELSE LET seg == segs[1]
             k == firstOperator(seg, operators, 1)
         IN  IF seg = Str0 \/ k = 0 THEN walkSegments(Tail(segs), operators, m)
             ELSE LET op == operators[k]
                      at == Index(seg, op)
                      left == TrimSpace(ToLower(SubSeq(seg, 1, at - 1)))
                      right == SubSeq(seg, at + Len(op), Len(seg))
                  IN  walkSegments(Tail(segs), operators,
                                   MapSet(m, left \o <<" ">> \o op, right))

walk(queryValue, sep, operators) ==
    walkSegments(Split(queryValue, sep), operators, {})

(***************************************************************************)
(* qparams.go, the parsers.  Each yields the field's new value, whether    *)
(* reflect.Value.Set panicked (the value's type is not assignable to the   *)
(* field's), and the error it returned, if any.                            *)
(***************************************************************************)
Done(v) == [panic |-> FALSE, val |-> v, err |-> <<>>]

Panicked(v) == [panic |-> TRUE, val |-> v, err |-> <<>>]

Failed(v, what, sField, queryValue) ==
    [panic |-> FALSE, val |-> v,
     err |-> <<[field |-> sField.Name, what |-> what, raw |-> queryValue]>>]

\* fieldV.Set(reflect.ValueOf(parsedMap)): a map[string]string is assignable
\* only to a map type of string keys and string elements
parseMap(sField, fieldV, queryValue) ==
    LET parsedMap == walk(queryValue, getSeparator(sField), getOperators(sField)) IN
    IF sField.Key = "string" /\ sField.Elem = "string"
    THEN Done([fieldV EXCEPT !.nil = FALSE, !.map = parsedMap])
    ELSE Panicked(fieldV)

\* the tokens of slice, lower-cased, the empty ones dropped
RECURSIVE lowerNonEmpty(_)
lowerNonEmpty(slice) ==
    IF Len(slice) = 0 THEN <<>>
    ELSE LET v == ToLower(slice[1]) IN
         (IF v # Str0 THEN <<v>> ELSE <<>>) \o lowerNonEmpty(Tail(slice))

\* fieldV.Set(reflect.ValueOf(newSlice)): a []string is assignable only to a
\* slice type of string elements
parseSlice(sField, fieldV, queryValue) ==
    LET newSlice == lowerNonEmpty(Split(queryValue, getSeparator(sField))) IN
    IF sField.Elem = "string"
    THEN Done([fieldV EXCEPT !.nil = FALSE, !.list = newSlice])
    ELSE Panicked(fieldV)

\* fieldV.Set(reflect.ValueOf(i)) with i an int: assignable to an int field only
parseInt(sField, fieldV, queryValue) ==
    IF ~AtoiOk(queryValue) THEN Failed(fieldV, "integer", sField, queryValue)
    ELSE IF sField.Kind = "Int" THEN Done([fieldV EXCEPT !.num = Atoi(queryValue)])
    ELSE Panicked(fieldV)

parseInt64(sField, fieldV, queryValue) ==
    IF ~AtoiOk(queryValue) THEN Failed(fieldV, "integer", sField, queryValue)
    ELSE Done([fieldV EXCEPT !.num = Atoi(queryValue)])

\* strconv.ParseFloat returns a float64 whatever bitSize is: assignable to a
\* float64 field only
parseFloat(sField, fieldV, queryValue, bitSize) ==
    IF ~FloatOk(queryValue) THEN Failed(fieldV, "float", sField, queryValue)
    ELSE IF sField.Kind = "Float64"
         THEN Done([fieldV EXCEPT !.flt = ParseFloat(queryValue)])
    ELSE Panicked(fieldV)

parseString(sField, fieldV, queryValue) == Done([fieldV EXCEPT !.str = queryValue])

(***************************************************************************)
(* Parse (qparams.go lines 107-238) as a state machine.                    *)
(*                                                                         *)
(*   shape   what dest is: "nil", "struct" (a struct by value), "ptrInt"   *)
(*           (a pointer to a non-struct), "ptrStruct", or "nilPtrStruct"   *)
(*           (a nil pointer of struct pointer type)                        *)
(*   typ     the struct type's fields, url the request's query             *)
(*   fresh   whether dest started as the zero value of its type            *)
(*   dest    the fields' values                                            *)
(*   queryValues  the url.Values Parse reads and rewrites                  *)
(*   i       the field the loop of line 121 is at                          *)
(*   todo, extra  the range of line 145: the keys still to be produced,    *)
(*           and the keys inserted during the range, which Go may or may   *)
(*           not produce                                                   *)
(*   errs    TypeConvErrors, ret what Parse returned                       *)
(*   qlog    the queryValue line 189 read, per field visited               *)
(*   mode, run, first   the harness: one call ("once"), or a second call   *)
(*           with the same request ("same") or with all names lower-cased  *)
(*           ("lower"); first keeps the first call's outcome               *)
(***************************************************************************)
VARIABLES shape, typ, url, fresh, dest, queryValues, i, todo, extra, errs,
          ret, qlog, pc, mode, run, first

vars == <<shape, typ, url, fresh, dest, queryValues, i, todo, extra, errs,
          ret, qlog, pc, mode, run, first>>

NoRet == [kind |-> "none", msgs |-> <<>>]

\* return nil
RetNil == [kind |-> "nil", msgs |-> <<>>]

\* var ErrWrongDestType = errors.New("Dest must be a struct pointer")
ErrWrongDestType == [kind |-> "ErrWrongDestType", msgs |-> <<>>]

\* a run-time panic unwinding out of Parse
Panic == [kind |-> "panic", msgs |-> <<>>]

RetErrs(e) == [kind |-> "TypeConvErrors", msgs |-> e]

\* lines 136-141: the lower-cased identifier, or the name: option as written
FieldName(sField) ==
    LET tagFieldName == getTag(<<"n","a","m","e">>, sField) IN
    IF tagFieldName # Str0 THEN tagFieldName ELSE ToLower(sField.Name)

\* lines 146-186, the body of the range for the entry k of qv: the field's
\* value and the url.Values afterwards
rangeBody(sField, vv, qv, k) ==
    LET key == ToLower(k)
        val == qv[k]
        sep == getSeparator(sField)
        r == IF IsContainer(sField)
             THEN [n \in 1..Len(val) |-> Trim(val[n], <<",">> \o sep)]
             ELSE val
        made == [vv EXCEPT !.nil = FALSE]
    IN  IF FieldName(sField) # key THEN [val |-> vv, qv |-> qv]
        ELSE CASE sField.Kind = "Map" ->
                    IF sField.Key # "string" \/ sField.Elem # "string"
                    THEN [val |-> made, qv |-> qv]
                    ELSE [val |-> made, qv |-> SetKey(qv, key, <<Join(r, <<",">>)>>)]
               [] sField.Kind = "Slice" ->
                    IF sField.Elem # "string"
                    THEN [val |-> made, qv |-> qv]
                    ELSE [val |-> made, qv |-> SetKey(qv, key, <<Join(r, sep)>>)]
               [] OTHER -> [val |-> vv, qv |-> SetKey(qv, key, r)]

\* lines 197-228: the parser of the field's kind
dispatch(sField, fieldV, queryValue) ==
    CASE sField.Kind = "Map" -> parseMap(sField, fieldV, queryValue)
      [] sField.Kind = "Slice" -> parseSlice(sField, fieldV, queryValue)
      [] sField.Kind \in {"Int", "Int32"} -> parseInt(sField, fieldV, queryValue)
      [] sField.Kind = "Int64" -> parseInt64(sField, fieldV, queryValue)
      [] sField.Kind = "Float64" -> parseFloat(sField, fieldV, queryValue, 64)
      [] sField.Kind = "Float32" -> parseFloat(sField, fieldV, queryValue, 32)
      [] sField.Kind = "String" -> parseString(sField, fieldV, queryValue)
      [] OTHER -> Done(fieldV)

\* a destination that is not fresh holds these values
PriorValue(f) ==
    CASE f.Kind = "String" -> [NoVal EXCEPT !.str = <<"o","l","d">>]
      [] f.Kind \in {"Int", "Int32", "Int64"} -> [NoVal EXCEPT !.num = 9]
      [] f.Kind \in {"Float32", "Float64"} -> [NoVal EXCEPT !.flt = <<25, 1>>]
      [] f.Kind = "Slice" -> [NoVal EXCEPT !.list = <<<<"o","l","d">>>>]
      [] f.Kind = "Map" -> [NoVal EXCEPT !.map = {<<<<"k"," ",">">>, <<"v">>>>}]
      [] OTHER -> NoVal

InitialDest(t, fr) ==
    [k \in 1..Len(t) |-> IF fr THEN ZeroValue(t[k]) ELSE PriorValue(t[k])]

\* the "lower" harness: every parameter name, and every name: option, lower-cased
LowerTagToken(tok) ==
    LET subSlice == Split(tok, <<":">>) IN
    IF Len(subSlice) = 2 /\ subSlice[1] = <<"n","a","m","e">>
    THEN subSlice[1] \o <<":">> \o ToLower(subSlice[2])
    ELSE tok

LowerTag(tag) ==
    LET toks == Split(tag, <<" ">>) IN
    Join([k \in 1..Len(toks) |-> LowerTagToken(toks[k])], <<" ">>)

LowerType(t) == [k \in 1..Len(t) |-> [t[k] EXCEPT !.Tag = LowerTag(t[k].Tag)]]

LowerURL(u) == [k \in 1..Len(u) |-> <<ToLower(u[k][1]), u[k][2]>>]

\* lines 108-117 (and the loop test of line 121)
CheckDest ==
    /\ pc = "start"
    /\ queryValues' = Query(url)
    /\ todo' = DOMAIN Query(url)
    /\ IF shape = "nil"
       THEN pc' = "done" /\ ret' = Panic
       ELSE IF shape \notin {"ptrStruct", "nilPtrStruct"}
       THEN pc' = "done" /\ ret' = ErrWrongDestType
       ELSE IF shape = "nilPtrStruct"
       THEN pc' = "done" /\ ret' = Panic
       ELSE pc' = (IF Len(typ) > 0 THEN "range" ELSE "return") /\ ret' = ret
    /\ UNCHANGED <<shape, typ, url, fresh, dest, i, extra, errs, qlog, mode, run, first>>

\* line 145: the range produces one more entry, in no particular order
RangeStep ==
    /\ pc = "range"
    /\ \E k \in todo \cup extra :
          LET b == rangeBody(typ[i], dest[i], queryValues, k) IN
          /\ dest' = [dest EXCEPT ![i] = b.val]
          /\ queryValues' = b.qv
          /\ todo' = todo \ {k}
          /\ extra' = (extra \ {k}) \cup ((DOMAIN b.qv) \ (DOMAIN queryValues))
    /\ UNCHANGED <<shape, typ, url, fresh, i, errs, ret, qlog, pc, mode, run, first>>

\* lines 189-231: the range is over; look the field's value up and parse it
FieldBody ==
    /\ pc = "range"
    /\ todo = {}
    /\ LET sField == typ[i]
           queryValue == Get(queryValues, FieldName(sField))
           res == dispatch(sField, dest[i], queryValue)
           more == i + 1 <= Len(typ)
       IN  /\ qlog' = Append(qlog, queryValue)
           /\ IF queryValue # Str0 /\ res.panic
              THEN /\ pc' = "done"
                   /\ ret' = Panic
                   /\ UNCHANGED <<dest, errs, i, todo, extra>>
              ELSE /\ dest' = IF queryValue = Str0 THEN dest
                              ELSE [dest EXCEPT ![i] = res.val]
                   /\ errs' = IF queryValue = Str0 THEN errs ELSE errs \o res.err
                   /\ i' = i + 1
                   /\ todo' = DOMAIN queryValues
                   /\ extra' = {}
                   /\ pc' = (IF more THEN "range" ELSE "return")
                   /\ ret' = ret
    /\ UNCHANGED <<shape, typ, url, fresh, queryValues, mode, run, first>>

\* lines 233-237
Return ==
    /\ pc = "return"
    /\ pc' = "done"
    /\ ret' = IF Len(errs) > 0 THEN RetErrs(errs) ELSE RetNil
    /\ UNCHANGED <<shape, typ, url, fresh, dest, queryValues, i, todo, extra, errs,
                   qlog, mode, run, first>>

\* the harness calls Parse again, with a new request and a new destination
SecondCall ==
    /\ pc = "done"
    /\ run = 1
    /\ mode \in {"same", "lower"}
    /\ first' = [ret |-> ret, dest |-> dest, url |-> url]
    /\ run' = 2
    /\ typ' = IF mode = "lower" THEN LowerType(typ) ELSE typ
    /\ url' = IF mode = "lower" THEN LowerURL(url) ELSE url
    /\ dest' = InitialDest(typ, fresh)
    /\ queryValues' = Query(<<>>)
    /\ i' = 1
    /\ todo' = {}
    /\ extra' = {}
    /\ errs' = <<>>
    /\ ret' = NoRet
    /\ qlog' = <<>>
    /\ pc' = "start"
    /\ UNCHANGED <<shape, fresh, mode>>

ParseStep == CheckDest \/ RangeStep \/ FieldBody \/ Return

Next == ParseStep \/ SecondCall

(***************************************************************************)
(* The destinations and requests the model runs Parse on.                  *)
(***************************************************************************)
Field(name, kind, key, elem, tag) ==
    [Name |-> name, Kind |-> kind, Key |-> key, Elem |-> elem, Tag |-> tag]

sEmbed == <<"E","m","b","e","d">>

sFilter == <<"F","i","l","t","e","r">>

sOps == <<"o","p","s",":",">",",","=","=",",","<","=",",","<",",","!","=",",","-","l","i","k","e","-">>

\* TestParseSlice: struct { Embed Slice }
testSlice == <<Field(sEmbed, "Slice", "", "string", Str0)>>

\* TestParseSliceCustomSeparator: struct { Embed Slice `qparams:"sep:|"` }
testSliceSep == <<Field(sEmbed, "Slice", "", "string", <<"s","e","p",":","|">>)>>

\* a separator of more than one character
testSliceSep2 == <<Field(sEmbed, "Slice", "", "string", <<"s","e","p",":","-","-">>)>>

\* a name: option that is not written in lower case
testSliceName == <<Field(sEmbed, "Slice", "", "string", <<"n","a","m","e",":","I","n","c">>)>>

\* TestParseMap: struct { Filter Map `qparams:"ops:>,==,<=,<,!=,-like-"` }
testMap == <<Field(sFilter, "Map", "string", "string", sOps)>>

\* TestParseMapWithCustomSeparator
testMapSep == <<Field(sFilter, "Map", "string", "string", <<"s","e","p",":","|"," ">> \o sOps)>>

\* struct { Age int; Nick string }
testScalars == <<Field(<<"A","g","e">>, "Int", "", "", Str0),
                 Field(<<"N","i","c","k">>, "String", "", "", Str0)>>

\* struct { N <kind> } for each numeric kind Parse has a case for
testNumber(kind) == <<Field(<<"N">>, kind, "", "", Str0)>>

\* struct { Ids []int }
testIntSlice == <<Field(<<"I","d","s">>, "Slice", "", "int", Str0)>>

\* struct { Cnt map[string]int `qparams:"ops:>"` }
testIntMap == <<Field(<<"C","n","t">>, "Map", "string", "int", <<"o","p","s",":",">">>)>>

\* struct{}
testEmpty == <<>>

NumberKinds == {"Int", "Int32", "Int64", "Float32", "Float64"}

StructTypes ==
    {testSlice, testSliceSep, testSliceSep2, testSliceName, testMap, testMapSep,
     testScalars, testIntSlice, testIntMap, testEmpty}
    \cup {testNumber(k) : k \in NumberKinds}

\* dest as the caller passes it
Dest(sh, t) == [shape |-> sh, typ |-> t]

Dests ==
    {Dest("ptrStruct", t) : t \in StructTypes}
    \cup {Dest("struct", testEmpty), Dest("struct", testSlice), Dest("nil", <<>>),
          Dest("ptrInt", <<>>), Dest("nilPtrStruct", testSlice)}

\* the spellings of a field's parameter name a request may use
Spellings(f) ==
    {ToLower(FieldName(f)), FieldName(f), ToUpper(FieldName(f)), f.Name}

KeysFor(t) ==
    IF Len(t) = 0 THEN {<<"f","o","o">>}
    ELSE UNION {Spellings(t[k]) : k \in 1..Len(t)}

\* raw values worth sending to a field of this type
KindVals(f) ==
    CASE f.Kind = "String" -> {Str0, <<"J","o">>}
      [] f.Kind \in {"Int", "Int32", "Int64"} -> {Str0, <<"7">>, <<"-","1","2">>, <<"x">>}
      [] f.Kind \in {"Float32", "Float64"} -> {Str0, <<"1",".","5">>, <<"-","2">>, <<"x">>}
      [] f.Kind = "Slice" /\ f.Elem = "string" ->
            {Str0, <<"U","s","e","r",",","O","r","d","e","r",",">>, <<",","a","|","B","|">>, <<"-","a","-","-","B">>, <<",">>}
      [] f.Kind = "Slice" -> {Str0, <<"1",",","2">>}
      [] f.Kind = "Map" /\ f.Elem = "string" ->
            {Str0, <<"a",">","1">>, <<"B","<","=","2",",">>, <<",","N","m","-","l","i","k","e","-","D","o">>}
      [] f.Kind = "Map" -> {Str0, <<"a",">","1">>}
      [] OTHER -> {Str0}

ValsFor(t) ==
    IF Len(t) = 0 THEN {Str0, <<"x">>}
    ELSE UNION {KindVals(t[k]) : k \in 1..Len(t)}

\* the most parameters a request of the model carries
MaxPairs == 2

\* every query of at most MaxPairs parameters with these names and values
URLs(K, V) == UNION {[1..n -> K \X V] : n \in 0..MaxPairs}

InitOf(d, u, fr, m) ==
    /\ shape = d.shape
    /\ typ = d.typ
    /\ url = u
    /\ fresh = fr
    /\ dest = InitialDest(d.typ, fr)
    /\ queryValues = Query(<<>>)
    /\ i = 1
    /\ todo = {}
    /\ extra = {}
    /\ errs = <<>>
    /\ ret = NoRet
    /\ qlog = <<>>
    /\ pc = "start"
    /\ mode = m
    /\ run = 1
    /\ first = [ret |-> NoRet, dest |-> <<>>, url |-> <<>>]

Init ==
    \E d \in Dests, fr \in BOOLEAN, m \in {"same", "lower"} :
       \E u \in URLs(KeysFor(d.typ), ValsFor(d.typ)) : InitOf(d, u, fr, m)

Spec == Init /\ [][Next]_vars

(***************************************************************************)
(* Map decoding on its own: the two Map structs of the tests, one call,    *)
(* the parameter "filter" in two spellings.  Its values are the filter     *)
(* strings of the tests and of the specification, and every string of at   *)
(* most MaxAtoms atoms: letters of both cases, operator characters, both   *)
(* separators, and the phrase operator.                                    *)
(***************************************************************************)
Atoms == {<<"a">>, <<"B">>, <<">">>, <<"<">>, <<"=">>, <<",">>, <<"|">>, <<"-","l","i","k","e","-">>}

\* the most atoms a generated filter value is made of
MaxAtoms == 3

AtomStrings == UNION {{Join(f, Str0) : f \in [1..n -> Atoms]} : n \in 1..MaxAtoms}

FilterValues ==
    {<<"b","a","l","a","n","c","e","<","=","1","0","0","0">>, <<"L","a","s","t","n","a","m","e","-","l","i","k","e","-","D","o","e">>, <<",","A","g","e",">","8",",","G","e","n","d","e","r","=","=","1",",","B","a","l","a","n","c","e","<","1","0","0",",">>,
     <<"|","A","g","e",">","8","|","G","e","n","d","e","r","=","=","1","|","B","a","l","a","n","c","e","<","1","0","0","|">>, <<"a","g","e">>}

FilterKeys == {ToLower(sFilter), sFilter}

\* the tests' values into fresh and used destinations, the generated ones
\* into fresh destinations
InitMap ==
    \E t \in {testMap, testMapSep} :
       \/ \E fr \in BOOLEAN, u \in URLs(FilterKeys, FilterValues) :
             InitOf(Dest("ptrStruct", t), u, fr, "once")
       \/ \E k \in FilterKeys, v \in AtomStrings :
             InitOf(Dest("ptrStruct", t), <<<<k, v>>>>, TRUE, "once")

SpecMap == InitMap /\ [][ParseStep]_vars

(***************************************************************************)
(* The claims.                                                             *)
(***************************************************************************)
Returned == pc = "done"

\* the parameters of u whose name is f's parameter name up to letter case
Matching(u, f) ==
    {k \in 1..Len(u) : ToLower(u[k][1]) = ToLower(FieldName(f))}

\* no two parameter names of u differ in letter case only
OneSpelling(u) ==
    \A a, b \in 1..Len(u) : ToLower(u[a][1]) = ToLower(u[b][1]) => u[a][1] = u[b][1]

\* C1: for a destination that is not a pointer to a struct (a struct by
\* value, a pointer to a non-struct, nil), whatever the query, Parse returns
\* ErrWrongDestType, terminates normally and leaves the destination alone.
C1_WrongDestYieldsSentinel ==
    (Returned /\ shape \in {"nil", "struct", "ptrInt"})
        => (ret = ErrWrongDestType /\ dest = InitialDest(typ, fresh))

\* C2: two Parse calls on the same parameter set into two equal fresh
\* destinations end with equal destinations and equal errors, whatever the
\* order in which the entries of the parameter set are visited.
C2_SameQuerySameOutcome ==
    (Returned /\ run = 2 /\ mode = "same" /\ fresh)
        => (ret = first.ret /\ dest = first.dest)

\* C3: a request whose parameter names equal the fields' effective names up
\* to letter case (the lower-cased identifier, or a name: option in any
\* case) decodes exactly as it does with the parameter names and the name:
\* options written in lower case.  (Stated for structs whose containers hold
\* strings and for requests that spell each name one way.)
C3_NamesMatchInAnyCase ==
    (Returned /\ run = 2 /\ mode = "lower" /\ shape = "ptrStruct"
        /\ OneSpelling(first.url)
        /\ \A k \in 1..Len(typ) : ~(IsContainer(typ[k]) /\ typ[k].Elem # "string"))
        => (ret = first.ret /\ dest = first.dest)

\* C4: a Slice field's parameter present with an empty value, decoded into a
\* fresh zero-value struct: Parse returns nil and the struct still equals a
\* fresh zero value, the Slice field nil.
C4_EmptyValueLeavesSliceNil ==
    (Returned /\ shape = "ptrStruct" /\ fresh /\ Len(typ) = 1
        /\ typ[1].Kind = "Slice" /\ typ[1].Elem = "string"
        /\ Len(url) = 1 /\ Matching(url, typ[1]) = {1} /\ url[1][2] = Str0)
        => (ret = RetNil /\ dest = InitialDest(typ, TRUE))

\* a slice or map field whose element type is not string
ForeignContainer(f) == IsContainer(f) /\ f.Elem # "string"

\* C5: a list or map field whose elements are not strings, given a non-empty
\* value: Parse neither fails nor panics, reports no error for the field,
\* writes no tokens into it and goes on to the remaining fields.
C5_ForeignContainerIsSkipped ==
    \A k \in 1..Len(typ) :
        (Returned /\ shape = "ptrStruct" /\ ForeignContainer(typ[k])
            /\ \E j \in Matching(url, typ[k]) : url[j][2] # Str0)
            => /\ ret.kind \in {"nil", "TypeConvErrors"}
               /\ \A n \in 1..Len(ret.msgs) : ret.msgs[n].field # typ[k].Name
               /\ dest[k].list = InitialDest(typ, fresh)[k].list
               /\ dest[k].map = InitialDest(typ, fresh)[k].map
               /\ Len(qlog) = Len(typ)

\* queryValue is a base-10 number of the field's kind
ValidNumber(f, queryValue) ==
    IF f.Kind \in {"Int", "Int32", "Int64"} THEN AtoiOk(queryValue)
    ELSE FloatOk(queryValue)

\* the field holds the number queryValue denotes
HoldsNumber(f, v, queryValue) ==
    IF f.Kind \in {"Int", "Int32", "Int64"} THEN v.num = Atoi(queryValue)
    ELSE v.flt = ParseFloat(queryValue)

\* C6: a scalar field of type int, int32, int64, float32 or float64, given a
\* valid base-10 number: Parse terminates normally, stores the number in the
\* field and adds no message to the error set.
C6_NumbersAreStored ==
    \A k \in 1..Len(typ) :
        (Returned /\ shape = "ptrStruct" /\ typ[k].Kind \in NumberKinds
            /\ Cardinality(Matching(url, typ[k])) = 1
            /\ \A j \in Matching(url, typ[k]) : ValidNumber(typ[k], url[j][2]))
            => /\ ret.kind \in {"nil", "TypeConvErrors"}
               /\ \A j \in Matching(url, typ[k]) : HoldsNumber(typ[k], dest[k], url[j][2])
               /\ \A n \in 1..Len(ret.msgs) : ret.msgs[n].field # typ[k].Name

\* the scalar field k was given a non-empty value that is no number of its kind
FailsConversion(k) ==
    /\ typ[k].Kind \in NumberKinds
    /\ k <= Len(qlog)
    /\ qlog[k] # Str0
    /\ ~ValidNumber(typ[k], qlog[k])

\* the fields among k..Len(typ) that fail conversion, in field order
RECURSIVE FailingFrom(_)
FailingFrom(k) ==
    IF k > Len(typ) THEN <<>>
    ELSE (IF FailsConversion(k) THEN <<typ[k].Name>> ELSE <<>>) \o FailingFrom(k + 1)

\* C7: Parse visits every field once; the error set holds one message per
\* scalar field whose non-empty value fails conversion, in field order; such
\* a field keeps its prior value, a string field given a value is populated;
\* and Parse returns nil exactly when no scalar field failed.
C7_FailuresAreAggregated ==
    (Returned /\ shape = "ptrStruct")
        => /\ ret.kind \in {"nil", "TypeConvErrors"}
           /\ Len(qlog) = Len(typ)
           /\ [n \in 1..Len(ret.msgs) |-> ret.msgs[n].field] = FailingFrom(1)
           /\ \A k \in 1..Len(typ) :
                 /\ FailsConversion(k) => dest[k] = InitialDest(typ, fresh)[k]
                 /\ (typ[k].Kind = "String" /\ qlog[k] # Str0) => dest[k].str = qlog[k]
           /\ (ret = RetNil) <=> (FailingFrom(1) = <<>>)

\* the reference splitter: V split on S, each token lower-cased, the empty
\* tokens dropped, in source order
RefSplit(V, S) ==
    LET toks == Split(V, S) IN
    SelectSeq([k \in 1..Len(toks) |-> ToLower(toks[k])], LAMBDA t : t # Str0)

\* C8: a list field with separator S (the default or a sep: option, of one
\* or more characters) given the single non-empty value V decodes to V split
\* on S, lower-cased, the empty tokens dropped.
C8_ListEqualsReferenceSplit ==
    (Returned /\ shape = "ptrStruct" /\ fresh /\ Len(typ) = 1
        /\ typ[1].Kind = "Slice" /\ typ[1].Elem = "string"
        /\ getTag(<<"n","a","m","e">>, typ[1]) = Str0
        /\ Len(url) = 1 /\ Matching(url, typ[1]) = {1} /\ url[1][2] # Str0)
        => dest[1].list = RefSplit(url[1][2], getSeparator(typ[1]))

\* the vocabulary as the ops: option lists it
AnnotatedOps(f) ==
    LET toks == Split(f.Tag, <<" ">>)
        opts == SelectSeq(toks, LAMBDA t : SubSeq(t, 1, 4) = <<"o","p","s",":">>)
    IN  IF opts = <<>> THEN <<>>
        ELSE Split(SubSeq(opts[1], 5, Len(opts[1])), <<",">>)

\* entry <<key, operand>> is what segment seg says: the operator op stands in
\* seg, the lower-cased text before it is the key's field token, and the
\* text after it, letter for letter, is the operand
EntryOfSegment(entry, seg, op) ==
    \E at \in 1..Len(seg) :
        /\ HasPrefixAt(seg, op, at)
        /\ entry[1] = TrimSpace(ToLower(SubSeq(seg, 1, at - 1))) \o <<" ">> \o op
        /\ entry[2] = SubSeq(seg, at + Len(op), Len(seg))

\* the first operator of the vocabulary, in its order, that occurs in seg
\* (0: none does)
Chosen(seg, ops) ==
    IF \E o \in 1..Len(ops) : Contains(seg, ops[o])
    THEN CHOOSE o \in 1..Len(ops) :
            /\ Contains(seg, ops[o])
            /\ \A j \in 1..(o - 1) : ~Contains(seg, ops[j])
    ELSE 0

\* the entry a segment with a chosen operator stands for: split at the first
\* occurrence of the operator
EntryAt(seg, op) ==
    LET at == CHOOSE a \in 1..Len(seg) :
                 /\ HasPrefixAt(seg, op, a)
                 /\ \A j \in 1..(a - 1) : ~HasPrefixAt(seg, op, j)
    IN  <<TrimSpace(ToLower(SubSeq(seg, 1, at - 1))) \o <<" ">> \o op,
          SubSeq(seg, at + Len(op), Len(seg))>>

\* parseMap has decoded field k of the destination
MapDecoded(k) ==
    /\ shape = "ptrStruct"
    /\ k <= Len(qlog)
    /\ typ[k].Kind = "Map"
    /\ typ[k].Key = "string"
    /\ typ[k].Elem = "string"
    /\ qlog[k] # Str0

\* C9: in the value handed to parseMap, every segment's operator is the first
\* token of the ops: vocabulary, in the annotation's order, that occurs in
\* the segment; the segment is split at that operator's first occurrence
\* and stored under "<field token> <operator>" (a later segment with the
\* same key overwrites); a segment holding no operator yields no entry and
\* no error, and the map holds no other entry.
C9_OperatorByVocabularyOrder ==
    \A k \in 1..Len(typ) :
        MapDecoded(k) =>
            LET segs == Split(qlog[k], getSeparator(typ[k]))
                ops == AnnotatedOps(typ[k])
                has(n) == segs[n] # Str0 /\ Chosen(segs[n], ops) # 0
                entry(n) == EntryAt(segs[n], ops[Chosen(segs[n], ops)])
            IN  /\ \A n \in 1..Len(segs) :
                      has(n) =>
                          /\ entry(n)[1] \in MapKeys(dest[k].map)
                          /\ (\A j \in (n + 1)..Len(segs) :
                                 has(j) => entry(j)[1] # entry(n)[1])
                             => entry(n) \in dest[k].map
                /\ \A e \in dest[k].map :
                      \E n \in 1..Len(segs) : has(n) /\ entry(n) = e
                /\ \A n \in 1..Len(errs) : errs[n].field # typ[k].Name

\* C9's case: "balance<=1000" under the tests' vocabulary is decoded to the
\* one entry "balance <=" -> "1000"
C9_Witness ==
    /\ Returned
    /\ typ = testMap
    /\ Len(url) = 1
    /\ url[1][2] = <<"b","a","l","a","n","c","e","<","=","1","0","0","0">>
    /\ dest[1].map = {<<<<"b","a","l","a","n","c","e"," ","<","=">>, <<"1","0","0","0">>>>}

\* C10: every key of a decoded map is "<field token> <operator>", the field
\* token in lower case, and every operand is the text to the right of the
\* operator exactly as it stands in the raw value, its letter case kept.
C10_OperandsAreVerbatim ==
    (Returned /\ shape = "ptrStruct" /\ fresh /\ Len(typ) = 1
        /\ typ[1].Kind = "Map" /\ typ[1].Elem = "string"
        /\ Len(url) = 1 /\ Matching(url, typ[1]) = {1})
        => \A entry \in dest[1].map :
              LET segs == Split(url[1][2], getSeparator(typ[1]))
                  ops == AnnotatedOps(typ[1])
              IN  \E n \in 1..Len(segs), o \in 1..Len(ops) :
                     EntryOfSegment(entry, segs[n], ops[o])

====
